---------------------------- MODULE Spec2Model ----------------------------
(***************************************************************************)
(* Model of line-chat-parser (class LineChatParser, index.js).             *)
(*                                                                         *)
(* A line is a sequence of characters; a character is a one-element        *)
(* string ("a", " ", "\t", ...) and a character outside ASCII is written   *)
(* as the name of its UTF-16 code unit ("u6708" is the single character    *)
(* U+6708).  Regular expressions are translated to operators that decide   *)
(* the match the way the JavaScript engine does (anchored at the start,    *)
(* greedy quantifiers, '.' excluding the line terminators).                *)
(*                                                                         *)
(* A Date is the record of its local-time fields.  Message records live on *)
(* a heap and are referred to by reference, since the parser hands the     *)
(* very object it accumulates into to its 'message' listeners.             *)
(***************************************************************************)
EXTENDS Integers, Sequences, FiniteSets, TLC

VARIABLES
    users,           \* this.users: Undefined or a sequence of names
    currentDate,     \* this.currentDate: a Date
    currentMessage,  \* this.currentMessage: Null or a reference into heap
    heap,            \* the message objects allocated so far (reference = index)
    emitted,         \* what the 'message' listener received, in order:
                     \*   [ref |-> the object, snap |-> its fields at that moment]
    raised,          \* TRUE once a call on the parser has thrown
    calls,           \* history of the calls made on the parser (ghost)
    constructedAt,   \* the moment the constructor ran (ghost)
    file,            \* the first argument of the static parse()
    doc,             \* the lines the file was written from (ghost)
    result,          \* the array parse() returned: references into heap
    pc,              \* "run": a parser driven call by call;
                     \* "call"/"done": before/after the static parse();
                     \* "feed"/"fed": a document fed line by line, then flushed;
                     \* "two": two instances driven call by call;
                     \* "idle"/"handler": outside/inside a 'message' listener
    other            \* the second parser instance, when there is one: its
                     \* fields, its heap and listener, the calls made on it
                     \* and the moment it was constructed

vars == <<users, currentDate, currentMessage, heap, emitted, raised, calls,
          constructedAt, file, doc, result, pc, other>>

\* this.currentMessage = null; references into heap start at 1
Null == 0

\* the value of an argument that was not passed
Undefined == [defined |-> FALSE]

\* an array argument
Array(list) == [defined |-> TRUE, list |-> list]

\* the result of a String.prototype.match that failed
NoMatch == [matched |-> FALSE]

---------------------------------------------------------------------------
(* Characters and character classes of the regular expressions.            *)

Digits == <<"0", "1", "2", "3", "4", "5", "6", "7", "8", "9">>

\* \d
Digit == {Digits[i] : i \in 1..10}

\* [A-Z]
Upper == {"A", "B", "C", "D", "E", "F", "G", "H", "I", "J", "K", "L", "M",
          "N", "O", "P", "Q", "R", "S", "T", "U", "V", "W", "X", "Y", "Z"}

\* [a-z]
Lower == {"a", "b", "c", "d", "e", "f", "g", "h", "i", "j", "k", "l", "m",
          "n", "o", "p", "q", "r", "s", "t", "u", "v", "w", "x", "y", "z"}

\* the characters '.' does not match
LineTerminator == {"\n", "\r", "u2028", "u2029"}

\* \s (the complement of \S)
WhiteSpace == {" ", "\t", "\n", "\r", "\f", "u000B", "u00A0", "u3000",
               "uFEFF", "u2028", "u2029"}

\* [./]
DateSep == {".", "/"}

\* [ \t]
TimeSep == {" ", "\t"}

\* [\t\n], the characters [^\t\n] does not match
TabOrNewline == {"\t", "\n"}

\* number of characters of s from position i on, up to the first one in stop
RECURSIVE RunNot(_, _, _)
RunNot(s, i, stop) ==
    IF i > Len(s) \/ s[i] \in stop THEN 0 ELSE 1 + RunNot(s, i + 1, stop)

\* s[i .. i+n-1] exists and consists of digits
AllDigits(s, i, n) ==
    /\ Len(s) >= i + n - 1
    /\ \A j \in i..(i + n - 1) : s[j] \in Digit

DigitVal(c) == (CHOOSE n \in 1..10 : Digits[n] = c) - 1

\* parseInt(s, 10) of a non-empty sequence of digits
RECURSIVE parseInt(_)
parseInt(s) ==
    IF Len(s) = 0 THEN 0
    ELSE 10 * parseInt(SubSeq(s, 1, Len(s) - 1)) + DigitVal(s[Len(s)])

\* String.prototype.substring(n)
substring(s, n) == IF n >= Len(s) THEN <<>> ELSE SubSeq(s, n + 1, Len(s))

\* text.indexOf(user) === 0
IsPrefix(p, s) == Len(p) <= Len(s) /\ SubSeq(s, 1, Len(p)) = p

---------------------------------------------------------------------------
(* JavaScript Date, in local time (a fixed offset, no daylight saving).    *)

IsLeap(y) == (y % 4 = 0 /\ y % 100 # 0) \/ y % 400 = 0

DaysInMonth(y, m) ==
    IF m = 1 THEN (IF IsLeap(y) THEN 29 ELSE 28)
    ELSE IF m \in {3, 5, 8, 10} THEN 30 ELSE 31

\* MakeDay: the day d (1-based, any integer) counted from the first of
\* month m (0..11) of year y, as a calendar date
RECURSIVE MakeDay(_, _, _)
MakeDay(y, m, d) ==
    IF d < 1
    THEN LET py == IF m = 0 THEN y - 1 ELSE y
             pm == IF m = 0 THEN 11 ELSE m - 1
         IN  MakeDay(py, pm, d + DaysInMonth(py, pm))
    ELSE IF d > DaysInMonth(y, m)
    THEN LET ny == IF m = 11 THEN y + 1 ELSE y
             nm == IF m = 11 THEN 0 ELSE m + 1
         IN  MakeDay(ny, nm, d - DaysInMonth(y, m))
    ELSE [year |-> y, month |-> m, date |-> d]

\* the Date on the calendar day dd at the given time of day
DateAt(dd, hours, minutes, seconds, ms) ==
    [year |-> dd.year, month |-> dd.month, date |-> dd.date,
     hours |-> hours, minutes |-> minutes, seconds |-> seconds, ms |-> ms]

\* new Date(year, month, day): a year 0..99 means 1900 + year, a month
\* outside 0..11 and a day outside the month carry over
NewDate(year, month, day) ==
    LET yr == IF year >= 0 /\ year <= 99 THEN 1900 + year ELSE year
    IN  DateAt(MakeDay(yr + (month \div 12), month % 12, day), 0, 0, 0, 0)

\* date.setHours(hours, minutes): seconds and milliseconds are kept,
\* minutes beyond 59 carry into the hour and the hour beyond 23 into the day
setHours(date, hours, minutes) ==
    LET total == hours * 60 + minutes
    IN  DateAt(MakeDay(date.year, date.month, date.date + (total \div 1440)),
               (total \div 60) % 24, total % 60, date.seconds, date.ms)

---------------------------------------------------------------------------
(* The pattern matchers.  A successful match is [matched |-> TRUE, ...];   *)
(* a capture group that did not take part in the match is the empty        *)
(* sequence, which the code does not tell apart from "" (match[4] || ...). *)

\* /^(\d{4})[./](\d{2})[./](\d{2})(?: \S+|\(.+\))/: any word after the space
DateHeaderRegexp_anyWord(line) ==
    /\ Len(line) >= 12
    /\ AllDigits(line, 1, 4)
    /\ line[5] \in DateSep
    /\ AllDigits(line, 6, 2)
    /\ line[8] \in DateSep
    /\ AllDigits(line, 9, 2)
    /\ \/ line[11] = " " /\ line[12] \notin WhiteSpace
       \/ /\ line[11] = "("
          /\ \E k \in 13..Len(line) :
                /\ line[k] = ")"
                /\ \A j \in 12..(k - 1) : line[j] \notin LineTerminator

\* /^(\d{4})([./])(\d{2})\2(\d{2})(?: [A-Z][a-z]+|\(.+\))/: the second
\* separator has to repeat the first
DateHeaderRegexp_sameSeparator(line) ==
    /\ Len(line) >= 13
    /\ AllDigits(line, 1, 4)
    /\ line[5] \in DateSep
    /\ AllDigits(line, 6, 2)
    /\ line[8] = line[5]
    /\ AllDigits(line, 9, 2)
    /\ \/ line[11] = " " /\ line[12] \in Upper /\ line[13] \in Lower
       \/ /\ line[11] = "("
          /\ \E k \in 13..Len(line) :
                /\ line[k] = ")"
                /\ \A j \in 12..(k - 1) : line[j] \notin LineTerminator

\* /^(\d{4})[./](\d{2})[./](\d{2})(?: [A-Z][a-z]+|\(.+\))/
DateHeaderRegexp(line) ==
    /\ Len(line) >= 13
    /\ AllDigits(line, 1, 4)
    /\ line[5] \in DateSep
    /\ AllDigits(line, 6, 2)
    /\ line[8] \in DateSep
    /\ AllDigits(line, 9, 2)
    /\ \/ line[11] = " " /\ line[12] \in Upper /\ line[13] \in Lower
       \/ /\ line[11] = "("
          /\ \E k \in 13..Len(line) :
                /\ line[k] = ")"
                /\ \A j \in 12..(k - 1) : line[j] \notin LineTerminator

matchDateHeader(line) ==
    IF ~DateHeaderRegexp(line) THEN NoMatch
    ELSE [matched |-> TRUE,
          year    |-> parseInt(SubSeq(line, 1, 4)),
          month   |-> parseInt(SubSeq(line, 6, 7)) - 1,
          day     |-> parseInt(SubSeq(line, 9, 10))]

\* ^(\d{1,2}):(\d{2})[ \t]  -- the number of hour digits, 0 when no match
TimePrefix(line) ==
    LET ok(n) == /\ AllDigits(line, 1, n)
                 /\ Len(line) >= n + 4
                 /\ line[n + 1] = ":"
                 /\ AllDigits(line, n + 2, 2)
                 /\ line[n + 4] \in TimeSep
    IN  IF ok(2) THEN 2 ELSE IF ok(1) THEN 1 ELSE 0

\* /^(\d{1,2}):(\d{2})[ \t]([^\t\n]+)\t?(.*)/ after a time prefix of n hour
\* digits, with g3 characters in the third group
TabGroups(line, n, g3) ==
    LET r == n + 5
        a == r + g3
        b == IF a <= Len(line) /\ line[a] = "\t" THEN a + 1 ELSE a
    IN  IF n = 0 \/ g3 = 0 THEN NoMatch
        ELSE [matched |-> TRUE,
              g |-> <<SubSeq(line, 1, n), SubSeq(line, n + 2, n + 3),
                      SubSeq(line, r, a - 1),
                      SubSeq(line, b, b + RunNot(line, b, LineTerminator) - 1)>>]

\* /^(\d{1,2}):(\d{2})[ \t]([^\t\n]+)\t?(.*)/
TabRegexp(line) ==
    TabGroups(line, TimePrefix(line),
              RunNot(line, TimePrefix(line) + 5, TabOrNewline))

\* /^(\d{1,2}):(\d{2})[ \t](.+)/: any non-empty remainder is taken
SpaceGroups_anyRemainder(line, n, g) ==
    LET r == n + 5
    IN  IF n = 0 \/ r > Len(line) THEN NoMatch
        ELSE IF line[r] \in LineTerminator THEN NoMatch
        ELSE [matched |-> TRUE,
              g |-> <<SubSeq(line, 1, n), SubSeq(line, n + 2, n + 3),
                      SubSeq(line, r, r + g), <<>> >>]

\* /^(\d{1,2}):(\d{2})[ \t](\S.+)/ after a time prefix of n hour digits, with
\* g characters matched by .+
SpaceGroups(line, n, g) ==
    LET r == n + 5
    IN  IF n = 0 \/ r > Len(line) THEN NoMatch
        ELSE IF line[r] \in WhiteSpace \/ g = 0 THEN NoMatch
        ELSE [matched |-> TRUE,
              g |-> <<SubSeq(line, 1, n), SubSeq(line, n + 2, n + 3),
                      SubSeq(line, r, r + g), <<>> >>]

\* /^(\d{1,2}):(\d{2})[ \t](\S.+)/
SpaceRegexp(line) ==
    SpaceGroups(line, TimePrefix(line),
                RunNot(line, TimePrefix(line) + 6, LineTerminator))

\* the reduction that keeps the first matching user
RECURSIVE reduceAuthor_firstMatch(_, _, _)
reduceAuthor_firstMatch(list, text, previousValue) ==
    IF Len(list) = 0 THEN previousValue
    ELSE LET user == Head(list)
         IN  reduceAuthor_firstMatch(Tail(list), text,
                 IF previousValue = <<>> /\ IsPrefix(user, text)
                 THEN user ELSE previousValue)

\* the reduction that lets the last matching user win, whatever its length
RECURSIVE reduceAuthor_lastMatch(_, _, _)
reduceAuthor_lastMatch(list, text, previousValue) ==
    IF Len(list) = 0 THEN previousValue
    ELSE LET user == Head(list)
         IN  reduceAuthor_lastMatch(Tail(list), text,
                 IF IsPrefix(user, text) THEN user ELSE previousValue)

\* users.reduce((previousValue, user) => ..., previousValue)
RECURSIVE reduceAuthor(_, _, _)
reduceAuthor(list, text, previousValue) ==
    IF Len(list) = 0 THEN previousValue
    ELSE LET user == Head(list)
         IN  reduceAuthor(Tail(list), text,
                 IF Len(user) > Len(previousValue) /\ IsPrefix(user, text)
                 THEN user ELSE previousValue)

\* users.reduce throws a TypeError when users is undefined
findAuthor(us, text) ==
    IF ~us.defined THEN [threw |-> TRUE]
    ELSE [threw |-> FALSE, value |-> reduceAuthor(us.list, text, <<>>)]

\* the author that asks findAuthor even when users was not passed
authorOf_alwaysFindAuthor(match, us) == findAuthor(us, match.g[3])

\* const author = typeof users === "undefined" ? match[3] : findAuthor(...)
authorOf(match, us) ==
    IF ~us.defined THEN [threw |-> FALSE, value |-> match.g[3]]
    ELSE findAuthor(us, match.g[3])

\* the tokens with the hour left as written, beyond 23 included
startTokens_noModulo(match, author) ==
    IF author.threw THEN [matched |-> TRUE, threw |-> TRUE]
    ELSE [matched |-> TRUE,
          threw   |-> FALSE,
          hours   |-> parseInt(match.g[1]),
          minutes |-> parseInt(match.g[2]),
          author  |-> author.value,
          text    |-> IF match.g[4] # <<>> THEN match.g[4]
                      ELSE substring(match.g[3], Len(author.value) + 1)]

\* the object matchMessageStart returns for a match and its author
startTokens(match, author) ==
    IF author.threw THEN [matched |-> TRUE, threw |-> TRUE]
    ELSE [matched |-> TRUE,
          threw   |-> FALSE,
          hours   |-> parseInt(match.g[1]) % 24,
          minutes |-> parseInt(match.g[2]),
          author  |-> author.value,
          text    |-> IF match.g[4] # <<>> THEN match.g[4]
                      ELSE substring(match.g[3], Len(author.value) + 1)]

\* matchMessageStart once line.match(regexp) returned match
startFromMatch(match, us) ==
    IF ~match.matched THEN NoMatch
    ELSE startTokens(match, authorOf(match, us))

matchMessageStart(line, us) ==
    startFromMatch(IF ~us.defined THEN TabRegexp(line) ELSE SpaceRegexp(line),
                   us)

---------------------------------------------------------------------------
(* The parser object.  A parser is the record of its fields together with  *)
(* the heap of message objects it allocated and the notifications its      *)
(* 'message' listener received.                                            *)

\* constructor (users), run at the moment now
constructor(us, now) ==
    [users          |-> us,
     currentDate    |-> now,
     currentMessage |-> Null,
     heap           |-> <<>>,
     emitted        |-> <<>>,
     raised         |-> FALSE]

\* flush () that forgets to empty the slot
flush_keepsSlot(p) ==
    IF p.currentMessage # Null
    THEN [p EXCEPT !.emitted = Append(@, [ref  |-> p.currentMessage,
                                          snap |-> p.heap[p.currentMessage]])]
    ELSE p

\* flush (): the listener is handed the current message object itself
flush(p) ==
    IF p.currentMessage # Null
    THEN [p EXCEPT !.emitted = Append(@, [ref  |-> p.currentMessage,
                                          snap |-> p.heap[p.currentMessage]]),
                   !.currentMessage = Null]
    ELSE p

\* processDateHeader that sets year, month and day on the date it has and
\* keeps its seconds and milliseconds
processDateHeader_keepsTime(p, year, month, day) ==
    LET f == flush(p)
    IN  [f EXCEPT !.currentDate =
            [NewDate(year, month, day) EXCEPT !.seconds = f.currentDate.seconds,
                                              !.ms = f.currentDate.ms]]

\* processDateHeader that does not flush
processDateHeader_noFlush(p, year, month, day) ==
    [p EXCEPT !.currentDate = NewDate(year, month, day)]

\* processDateHeader (year, month, day)
processDateHeader(p, year, month, day) ==
    LET f == flush(p)
    IN  [f EXCEPT !.currentDate = NewDate(year, month, day)]

\* processMessageStart that does not flush
processMessageStart_noFlush(p, hours, minutes, author, text) ==
    LET date == setHours(p.currentDate, hours, minutes)
    IN  [p EXCEPT !.heap = Append(@, [date |-> date, author |-> author,
                                      text |-> text]),
                  !.currentMessage = Len(p.heap) + 1]

\* processMessageStart that flushes after creating the message
processMessageStart_flushLast(p, hours, minutes, author, text) ==
    LET date == setHours(p.currentDate, hours, minutes)
    IN  flush([p EXCEPT !.heap = Append(@, [date |-> date, author |-> author,
                                            text |-> text]),
                        !.currentMessage = Len(p.heap) + 1])

\* processMessageStart that fills the record of the previous message again
\* instead of allocating one
processMessageStart_reuse(p, hours, minutes, author, text) ==
    LET f    == flush(p)
        date == setHours(f.currentDate, hours, minutes)
        msg  == [date |-> date, author |-> author, text |-> text]
    IN  IF f.heap = <<>>
        THEN [f EXCEPT !.heap = <<msg>>, !.currentMessage = 1]
        ELSE [f EXCEPT !.heap[Len(f.heap)] = msg,
                       !.currentMessage = Len(f.heap)]

\* processMessageStart (hours, minutes, author, text): a new object is
\* allocated for every message
processMessageStart(p, hours, minutes, author, text) ==
    LET f    == flush(p)
        date == setHours(f.currentDate, hours, minutes)
    IN  [f EXCEPT !.heap = Append(@, [date |-> date, author |-> author,
                                      text |-> text]),
                  !.currentMessage = Len(f.heap) + 1]

\* processMessageContinuation that takes an empty line for the end of the
\* message
processMessageContinuation_endsOnEmpty(p, text) ==
    IF p.currentMessage # Null
    THEN IF text = <<>> THEN flush(p)
         ELSE [p EXCEPT !.heap[p.currentMessage].text = @ \o <<"\n">> \o text]
    ELSE p

\* processMessageContinuation that ignores empty lines
processMessageContinuation_skipEmpty(p, text) ==
    IF p.currentMessage # Null /\ text # <<>>
    THEN [p EXCEPT !.heap[p.currentMessage].text = @ \o <<"\n">> \o text]
    ELSE p

\* processMessageContinuation that opens an authorless message for a line
\* arriving while none is in progress
processMessageContinuation_opens(p, text) ==
    IF p.currentMessage # Null
    THEN [p EXCEPT !.heap[p.currentMessage].text = @ \o <<"\n">> \o text]
    ELSE [p EXCEPT !.heap = Append(@, [date |-> p.currentDate,
                                       author |-> <<>>, text |-> text]),
                   !.currentMessage = Len(p.heap) + 1]

\* processMessageContinuation (text)
processMessageContinuation(p, text) ==
    IF p.currentMessage # Null
    THEN [p EXCEPT !.heap[p.currentMessage].text = @ \o <<"\n">> \o text]
    ELSE p

\* process (line) that, after starting a message, goes on to the
\* continuation branch with the same line
processMatched_fallsThrough(p, line, header, start) ==
    IF header.matched
    THEN processDateHeader(p, header.year, header.month, header.day)
    ELSE IF start.matched
    THEN IF start.threw THEN [p EXCEPT !.raised = TRUE]
         ELSE processMessageContinuation(
                  processMessageStart(p, start.hours, start.minutes,
                                      start.author, start.text), line)
    ELSE processMessageContinuation(p, line)

\* process (line), once the two matchers returned header and start
processMatched(p, line, header, start) ==
    IF header.matched
    THEN processDateHeader(p, header.year, header.month, header.day)
    ELSE IF start.matched
    THEN IF start.threw THEN [p EXCEPT !.raised = TRUE]
         ELSE processMessageStart(p, start.hours, start.minutes,
                                  start.author, start.text)
    ELSE processMessageContinuation(p, line)

\* process (line)
process(p, line) ==
    processMatched(p, line, matchDateHeader(line),
                   matchMessageStart(line, p.users))

\* file.split(/\n/): a carriage return before the linefeed stays in the line
RECURSIVE splitFrom_onLF(_, _, _)
splitFrom_onLF(str, i, piece) ==
    IF i > Len(str) THEN <<piece>>
    ELSE IF str[i] = "\n"
    THEN <<piece>> \o splitFrom_onLF(str, i + 1, <<>>)
    ELSE splitFrom_onLF(str, i + 1, Append(piece, str[i]))

\* file.split(/\r?\n/): the pieces between the separators, empty ones kept
RECURSIVE splitFrom(_, _, _)
splitFrom(str, i, piece) ==
    IF i > Len(str) THEN <<piece>>
    ELSE IF str[i] = "\r" /\ i + 1 <= Len(str) /\ str[i + 1] = "\n"
    THEN <<piece>> \o splitFrom(str, i + 2, <<>>)
    ELSE IF str[i] = "\n"
    THEN <<piece>> \o splitFrom(str, i + 1, <<>>)
    ELSE splitFrom(str, i + 1, Append(piece, str[i]))

split(str) == splitFrom(str, 1, <<>>)

\* the loop that passes over empty lines
RECURSIVE forEachProcess_skipsEmpty(_, _)
forEachProcess_skipsEmpty(p, lines) ==
    IF lines = <<>> \/ p.raised THEN p
    ELSE IF Head(lines) = <<>> THEN forEachProcess_skipsEmpty(p, Tail(lines))
    ELSE forEachProcess_skipsEmpty(process(p, Head(lines)), Tail(lines))

\* lines.forEach((line) => parser.process(line)); an exception ends the loop
RECURSIVE forEachProcess(_, _)
forEachProcess(p, lines) ==
    IF lines = <<>> \/ p.raised THEN p
    ELSE forEachProcess(process(p, Head(lines)), Tail(lines))

\* const lines = Array.isArray(file) ? file : file.split(/\r?\n/)
linesOf(f) == IF f.isArray THEN f.lines ELSE split(f.string)

\* parser.flush() at the end of parse
finalFlush(fed) == IF fed.raised THEN fed ELSE flush(fed)

\* what parse leaves behind: the parser in its final state, the lines it
\* processed and the array of message objects it returns
returned(lines, final) ==
    [parser   |-> final,
     lines    |-> lines,
     messages |-> [k \in 1..Len(final.emitted) |-> final.emitted[k].ref]]

\* parse that returns without the final flush()
parse_noFlush(f, us, now) ==
    returned(linesOf(f), forEachProcess(constructor(us, now), linesOf(f)))

\* static parse (file, users), run at the moment now
parse(f, us, now) ==
    returned(linesOf(f),
             finalFlush(forEachProcess(constructor(us, now), linesOf(f))))

---------------------------------------------------------------------------
(* The inputs.                                                             *)

\* "2017.09.02 Saturday"
HeaderSaturday ==
    <<"2", "0", "1", "7", ".", "0", "9", ".", "0", "2", " ", "S", "a",
    "t", "u", "r", "d", "a", "y">>

\* "0017/09/02(<U+6708>)"
HeaderYear17 ==
    <<"0", "0", "1", "7", "/", "0", "9", "/", "0", "2", "(", "u6708",
    ")">>

\* "12:00 foo hello"
StartFooSpace ==
    <<"1", "2", ":", "0", "0", " ", "f", "o", "o", " ", "h", "e", "l",
    "l", "o">>

\* "5:06<TAB>foo bar<TAB>hi<TAB>x"
StartFooBarTab ==
    <<"5", ":", "0", "6", "\t", "f", "o", "o", " ", "b", "a", "r", "\t",
    "h", "i", "\t", "x">>

\* "23:75 zed"
StartZed ==
    <<"2", "3", ":", "7", "5", " ", "z", "e", "d">>

\* "<U+6708><TAB>with tab<CR>"
ContTab ==
    <<"u6708", "\t", "w", "i", "t", "h", " ", "t", "a", "b", "\r">>

\* ""
ContEmpty ==
    <<>>

\* "12:0x foo"
ContBadTime ==
    <<"1", "2", ":", "0", "x", " ", "f", "o", "o">>

\* "2017.09.02 saturday"
ContBadHeader ==
    <<"2", "0", "1", "7", ".", "0", "9", ".", "0", "2", " ", "s", "a",
    "t", "u", "r", "d", "a", "y">>

\* the lines handed to process()
Corpus ==
    {HeaderSaturday, HeaderYear17,
     StartFooSpace, StartFooBarTab, StartZed,
     ContTab, ContEmpty, ContBadTime, ContBadHeader}

\* the users argument: left out, or the names "foo", "bar", "foo bar"
UsersChoices ==
    {Undefined,
     Array(<< <<"f", "o", "o">>, <<"b", "a", "r">>,
              <<"f", "o", "o", " ", "b", "a", "r">> >>)}

\* the users argument of the claims about single lines: the same names
\* in another order as well, and a name given twice
LineUsersChoices ==
    UsersChoices \cup
    {Array(<< <<"f", "o", "o", " ", "b", "a", "r">>, <<"f", "o", "o">>,
              <<"b", "a", "r">> >>),
     Array(<< <<"f", "o", "o">>, <<"f", "o", "o", " ", "b", "a", "r">>,
              <<"f", "o", "o">> >>)}

\* new Date() at construction: any moment, seconds and milliseconds included
NowChoices ==
    {[year |-> 2024, month |-> 1, date |-> 29, hours |-> 23, minutes |-> 59,
      seconds |-> 58, ms |-> 123],
     [year |-> 2019, month |-> 11, date |-> 31, hours |-> 13, minutes |-> 37,
      seconds |-> 0, ms |-> 0]}

\* number of calls made on one parser
MaxCalls == 4

\* number of lines of a document handed to parse()
MaxLines == 3

\* the lines of a document that is written to a string: no line terminator
\* inside a line
PlainCorpus == {line \in Corpus : \A i \in 1..Len(line) : line[i] \notin LineTerminator}

\* the sequences of at most n elements of S
SeqsUpTo(S, n) == UNION {[1..k -> S] : k \in 0..n}

\* the lines of ls joined by the line ending eol
RECURSIVE Join(_, _)
Join(ls, eol) ==
    IF ls = <<>> THEN <<>>
    ELSE IF Len(ls) = 1 THEN Head(ls)
    ELSE Head(ls) \o eol \o Join(Tail(ls), eol)

LF   == <<"\n">>
CRLF == <<"\r", "\n">>

ArrayFile(ls)  == [isArray |-> TRUE, lines |-> ls]
StringFile(str) == [isArray |-> FALSE, string |-> str]

ProcessCall(line) == [op |-> "process", line |-> line]
FlushCall         == [op |-> "flush", line |-> <<>>]

---------------------------------------------------------------------------
(* Lines put together from a time token and a remainder, for the claims    *)
(* about single lines.                                                     *)

\* the hour digits of a message start: one digit, zero-padded, 24 and beyond
HourTokens ==
    {<<"0">>, <<"0", "0">>, <<"5">>, <<"0", "5">>, <<"2", "3">>,
     <<"2", "4">>, <<"9", "9">>}

\* the minute digits of a message start: within the hour and beyond
MinuteTokens ==
    {<<"0", "0">>, <<"0", "7">>, <<"5", "9">>, <<"6", "0">>, <<"9", "9">>}

\* "foo hello"
RestFooHello ==
    <<"f", "o", "o", " ", "h", "e", "l", "l", "o">>

\* "foo bar<TAB>hi<TAB>x"
RestFooBarTab ==
    <<"f", "o", "o", " ", "b", "a", "r", "\t", "h", "i", "\t", "x">>

\* "foobar x"
RestFoobar ==
    <<"f", "o", "o", "b", "a", "r", " ", "x">>

\* "zed"
RestZed ==
    <<"z", "e", "d">>

\* "foo"
RestFoo ==
    <<"f", "o", "o">>

\* "bar<TAB>"
RestBarTab ==
    <<"b", "a", "r", "\t">>

\* "foo<TAB>hi<CR>x"
RestCarriage ==
    <<"f", "o", "o", "\t", "h", "i", "\r", "x">>

\* "f"
RestOneChar ==
    <<"f">>

\* " foo"
RestLeadingSpace ==
    <<" ", "f", "o", "o">>

\* "bar baz<TAB>foo"
RestBarBaz ==
    <<"b", "a", "r", " ", "b", "a", "z", "\t", "f", "o", "o">>

\* "f<CR>x"
RestCarriageSecond ==
    <<"f", "\r", "x">>

\* "zed<CR>x"
RestZedCarriage ==
    <<"z", "e", "d", "\r", "x">>

\* what follows the time and its separator
Rests ==
    {RestFooHello, RestFooBarTab, RestFoobar, RestZed,
     RestFoo, RestBarTab, RestCarriage, RestOneChar,
     RestLeadingSpace, RestBarBaz,
     RestCarriageSecond, RestZedCarriage, <<>>}

\* <hours>:<minutes><separator><remainder>
TimedLines ==
    {h \o <<":">> \o m \o <<s>> \o r :
        h \in HourTokens, m \in MinuteTokens, s \in TimeSep, r \in Rests}

\* lines that carry a date and a time at once
HybridLines ==
    {StartFooSpace \o <<" ">> \o HeaderSaturday,
     HeaderSaturday \o <<" ">> \o StartFooSpace,
     HeaderYear17 \o <<"\t">> \o StartFooBarTab,
     SubSeq(StartFooSpace, 1, 5) \o SubSeq(HeaderSaturday, 5, 19),
     SubSeq(HeaderSaturday, 1, 4) \o SubSeq(StartFooSpace, 3, 15),
     SubSeq(HeaderSaturday, 3, 4) \o SubSeq(StartFooSpace, 3, 6)
         \o SubSeq(HeaderSaturday, 11, 19)}

\* what follows the day of a date line: " Saturday", " saturday",
\* " <U+571F><U+66DC><U+65E5>", "(<U+6708>)", "(Mon)", "()", " S" and nothing
DateSuffixes ==
    {SubSeq(HeaderSaturday, 11, 19), SubSeq(ContBadHeader, 11, 19),
     <<" ", "u571F", "u66DC", "u65E5">>, SubSeq(HeaderYear17, 11, 13),
     <<"(", "M", "o", "n", ")">>, <<"(", ")">>, <<" ", "S">>, <<>>}

\* the characters put between year, month and day
DateSepChoices == DateSep \cup {"-"}

\* 2017<separator>09<separator>02<suffix>
DateLines ==
    {SubSeq(HeaderSaturday, 1, 4) \o <<s1>> \o SubSeq(HeaderSaturday, 6, 7)
        \o <<s2>> \o SubSeq(HeaderSaturday, 9, 10) \o suffix :
        s1 \in DateSepChoices, s2 \in DateSepChoices, suffix \in DateSuffixes}

\* the lines a single process() call is examined on
LineChoices == TimedLines \cup HybridLines \cup DateLines \cup Corpus

\* what the parser was fed before the examined line
Preludes == {<<>>, <<HeaderSaturday>>, <<StartFooSpace>>}

---------------------------------------------------------------------------
(* One parser driven by its caller.                                        *)

Parser ==
    [users          |-> users,
     currentDate    |-> currentDate,
     currentMessage |-> currentMessage,
     heap           |-> heap,
     emitted        |-> emitted,
     raised         |-> raised]

Becomes(p) ==
    /\ users'          = p.users
    /\ currentDate'    = p.currentDate
    /\ currentMessage' = p.currentMessage
    /\ heap'           = p.heap
    /\ emitted'        = p.emitted
    /\ raised'         = p.raised

IsParser(p) ==
    /\ users          = p.users
    /\ currentDate    = p.currentDate
    /\ currentMessage = p.currentMessage
    /\ heap           = p.heap
    /\ emitted        = p.emitted
    /\ raised         = p.raised

Constructed(us, now) ==
    /\ IsParser(constructor(us, now))
    /\ constructedAt = now
    /\ calls = <<>>

NoFile == [isArray |-> TRUE, lines |-> <<>>]

\* no second instance was constructed
NoInstance == [constructed |-> FALSE]

Init ==
    /\ \E us \in UsersChoices, now \in NowChoices : Constructed(us, now)
    /\ file = NoFile
    /\ doc = <<>>
    /\ result = <<>>
    /\ other = NoInstance
    /\ pc = "run"

Process(line) ==
    /\ pc = "run"
    /\ Len(calls) < MaxCalls
    /\ Becomes(process(Parser, line))
    /\ calls' = Append(calls, ProcessCall(line))
    /\ UNCHANGED <<other, constructedAt, file, doc, result, pc>>

Flush ==
    /\ pc = "run"
    /\ Len(calls) < MaxCalls
    /\ Becomes(flush(Parser))
    /\ calls' = Append(calls, FlushCall)
    /\ UNCHANGED <<other, constructedAt, file, doc, result, pc>>

Next ==
    \/ \E line \in Corpus : Process(line)
    \/ Flush

Spec == Init /\ [][Next]_vars

---------------------------------------------------------------------------
(* One call of the static parse(): the document is handed over as an array *)
(* of lines or as one string with LF or CRLF line endings.                 *)

InitParse ==
    /\ \E us \in UsersChoices, now \in NowChoices : Constructed(us, now)
    /\ \/ /\ doc \in SeqsUpTo(Corpus, MaxLines)
          /\ file = ArrayFile(doc)
       \/ /\ doc \in SeqsUpTo(PlainCorpus, MaxLines)
          /\ \E eol \in {LF, CRLF} : file = StringFile(Join(doc, eol))
    /\ result = <<>>
    /\ other = NoInstance
    /\ pc = "call"

Returns(r) ==
    /\ Becomes(r.parser)
    /\ result' = r.messages
    /\ calls' = [k \in 1..Len(r.lines) |-> ProcessCall(r.lines[k])]
                    \o <<FlushCall>>

Parse ==
    /\ pc = "call"
    /\ Returns(parse(file, users, constructedAt))
    /\ pc' = "done"
    /\ UNCHANGED <<other, constructedAt, file, doc>>

NextParse == Parse

SpecParse == InitParse /\ [][NextParse]_vars

---------------------------------------------------------------------------
(* A fresh parser fed the lines of a document one by one with process()    *)
(* and then flushed, as the caller of the event interface does.            *)

\* the document is a prelude followed by the examined line
InitLine ==
    /\ \E us \in LineUsersChoices, now \in NowChoices : Constructed(us, now)
    /\ \E pre \in Preludes, line \in LineChoices : doc = Append(pre, line)
    /\ file = NoFile
    /\ result = <<>>
    /\ other = NoInstance
    /\ pc = "feed"

\* the document is any sequence of lines without line terminators
InitFeed ==
    /\ \E us \in UsersChoices, now \in NowChoices : Constructed(us, now)
    /\ doc \in SeqsUpTo(PlainCorpus, MaxLines)
    /\ file = NoFile
    /\ result = <<>>
    /\ other = NoInstance
    /\ pc = "feed"

\* parser.process(line) for the next line of the document
Feed ==
    /\ pc = "feed"
    /\ Len(calls) < Len(doc)
    /\ Becomes(process(Parser, doc[Len(calls) + 1]))
    /\ calls' = Append(calls, ProcessCall(doc[Len(calls) + 1]))
    /\ UNCHANGED <<other, constructedAt, file, doc, result, pc>>

\* parser.flush() after the last line
FeedFlush ==
    /\ pc = "feed"
    /\ Len(calls) = Len(doc)
    /\ Becomes(flush(Parser))
    /\ calls' = Append(calls, FlushCall)
    /\ pc' = "fed"
    /\ UNCHANGED <<other, constructedAt, file, doc, result>>

NextFeed ==
    \/ Feed
    \/ FeedFlush

SpecLine == InitLine /\ [][NextFeed]_vars

SpecFeed == InitFeed /\ [][NextFeed]_vars

---------------------------------------------------------------------------
(* Two parser instances, each fed the calls of its own stream, in any      *)
(* interleaving.                                                           *)

\* number of calls made on each of two instances
MaxStream == 2

\* the calls of a stream
StreamCalls ==
    {ProcessCall(line) : line \in {HeaderSaturday, StartFooSpace, ContBadTime}}
        \cup {FlushCall}

\* a second instance: its state, the calls made on it, its construction
Instance(p, cs, now) ==
    [constructed |-> TRUE, parser |-> p, calls |-> cs, constructedAt |-> now]

\* the method call c on the parser p
call(p, c) == IF c.op = "flush" THEN flush(p) ELSE process(p, c.line)

\* the call on instance i when the current date is kept in one place for
\* all instances
callOn_sharedDate(w, i, c) ==
    [j \in 1..2 |-> [IF j = i THEN call(w[j], c) ELSE w[j]
                        EXCEPT !.currentDate = call(w[i], c).currentDate]]

\* the method call c on instance i of the instances w: the methods read and
\* write the fields of 'this' only
callOn(w, i, c) == [w EXCEPT ![i] = call(w[i], c)]

Instances == <<Parser, other.parser>>

TwoBecome(w, cs1, cs2) ==
    /\ Becomes(w[1])
    /\ calls' = cs1
    /\ other' = [other EXCEPT !.parser = w[2], !.calls = cs2]

InitTwo ==
    /\ \E us \in UsersChoices, now \in NowChoices : Constructed(us, now)
    /\ \E us \in UsersChoices, now \in NowChoices :
          other = Instance(constructor(us, now), <<>>, now)
    /\ file = NoFile
    /\ doc = <<>>
    /\ result = <<>>
    /\ pc = "two"

CallThis(c) ==
    /\ pc = "two"
    /\ Len(calls) < MaxStream
    /\ TwoBecome(callOn(Instances, 1, c), Append(calls, c), other.calls)
    /\ UNCHANGED <<constructedAt, file, doc, result, pc>>

CallOther(c) ==
    /\ pc = "two"
    /\ Len(other.calls) < MaxStream
    /\ TwoBecome(callOn(Instances, 2, c), calls, Append(other.calls, c))
    /\ UNCHANGED <<constructedAt, file, doc, result, pc>>

NextTwo ==
    \/ \E c \in StreamCalls : CallThis(c)
    \/ \E c \in StreamCalls : CallOther(c)

SpecTwo == InitTwo /\ [][NextTwo]_vars

---------------------------------------------------------------------------
(* One parser whose 'message' listener calls back into the parser.  emit() *)
(* runs the listener synchronously, inside flush(), between the test of    *)
(* currentMessage and its reset; a call that emits is therefore taken in   *)
(* two steps, with the calls of the listener in between.  The listener     *)
(* does not call back again while it is handling the emission of one of    *)
(* its own calls.                                                          *)

\* number of calls made on the parser, those of the listener included
MaxHandlerCalls == 3

\* a call made by the listener
Reentrant(c) == [op |-> "listener", line |-> c.line]

\* the call c reaches this.emit("message", this.currentMessage) in flush()
Emits(p, c) ==
    /\ p.currentMessage # Null
    /\ \/ c.op = "flush"
       \/ matchDateHeader(c.line).matched
       \/ matchMessageStart(c.line, p.users).matched

\* this.emit("message", this.currentMessage): the listener is running
emit(p) ==
    [p EXCEPT !.emitted = Append(@, [ref  |-> p.currentMessage,
                                     snap |-> p.heap[p.currentMessage]])]

\* the call c from the return of emit() on: this.currentMessage = null and
\* what the handler of the line does after its flush()
afterEmit(p, c) == call([p EXCEPT !.currentMessage = Null], c)

InitHandler ==
    /\ \E us \in UsersChoices, now \in NowChoices : Constructed(us, now)
    /\ file = NoFile
    /\ doc = <<>>
    /\ result = <<>>
    /\ other = NoInstance
    /\ pc = "idle"

\* a call that does not emit
Direct(c) ==
    /\ pc = "idle"
    /\ Len(calls) < MaxHandlerCalls
    /\ ~Emits(Parser, c)
    /\ Becomes(call(Parser, c))
    /\ calls' = Append(calls, c)
    /\ UNCHANGED <<other, constructedAt, file, doc, result, pc>>

\* a call up to the moment its emit() has entered the listener
Deliver(c) ==
    /\ pc = "idle"
    /\ Len(calls) < MaxHandlerCalls
    /\ Emits(Parser, c)
    /\ Becomes(emit(Parser))
    /\ calls' = Append(calls, c)
    /\ pc' = "handler"
    /\ UNCHANGED <<other, constructedAt, file, doc, result>>

\* the listener calls flush() or process(line) on the parser
Reenter(c) ==
    /\ pc = "handler"
    /\ Len(calls) < MaxHandlerCalls
    /\ Becomes(call(Parser, c))
    /\ calls' = Append(calls, Reentrant(c))
    /\ UNCHANGED <<other, constructedAt, file, doc, result, pc>>

\* the listener returns and the call that emitted runs to its end
Return ==
    /\ pc = "handler"
    /\ \E j \in 1..Len(calls) :
          /\ calls[j].op # "listener"
          /\ \A k \in (j + 1)..Len(calls) : calls[k].op = "listener"
          /\ Becomes(afterEmit(Parser, calls[j]))
    /\ pc' = "idle"
    /\ UNCHANGED <<other, calls, constructedAt, file, doc, result>>

NextHandler ==
    \/ \E c \in StreamCalls : Direct(c)
    \/ \E c \in StreamCalls : Deliver(c)
    \/ \E c \in StreamCalls : Reenter(c)
    \/ Return

SpecHandler == InitHandler /\ [][NextHandler]_vars

---------------------------------------------------------------------------
(* Vocabulary of the properties: the calls made so far, classified by the  *)
(* patterns alone.                                                         *)

IsHeaderLine(line) == matchDateHeader(line).matched
IsStartLine(line)  == ~IsHeaderLine(line) /\ matchMessageStart(line, users).matched
IsContLine(line)   == ~IsHeaderLine(line) /\ ~IsStartLine(line)

IsHeaderCall(c) == c.op = "process" /\ IsHeaderLine(c.line)
IsStartCall(c)  == c.op = "process" /\ IsStartLine(c.line)
IsContCall(c)   == c.op = "process" /\ IsContLine(c.line)

NumCalls == Len(calls)
LastCall == calls[NumCalls]

\* the step just taken is the call c
Called(c) == calls' = Append(calls, c)

\* positions in calls of the message-start lines, in order
StartPositions ==
    LET RECURSIVE from(_)
        from(j) == IF j > NumCalls THEN <<>>
                   ELSE IF IsStartCall(calls[j]) THEN <<j>> \o from(j + 1)
                   ELSE from(j + 1)
    IN  from(1)

\* the continuation lines that directly follow position j
RECURSIVE ContinuationsAfter(_)
ContinuationsAfter(j) ==
    IF j + 1 > NumCalls \/ ~IsContCall(calls[j + 1]) THEN <<>>
    ELSE <<calls[j + 1].line>> \o ContinuationsAfter(j + 1)

\* each line of ls preceded by a newline, concatenated
RECURSIVE NewlineEach(_)
NewlineEach(ls) ==
    IF ls = <<>> THEN <<>>
    ELSE <<"\n">> \o Head(ls) \o NewlineEach(Tail(ls))

\* author and initial text of a message-start line
StartOf(line) == matchMessageStart(line, users)

InProgress == IF currentMessage # Null THEN 1 ELSE 0

Notification(ref) == [ref |-> ref, snap |-> heap[ref]]

---------------------------------------------------------------------------
(* C2: after any sequence of process() and flush() calls the number of     *)
(* 'message' notifications equals the number of message-start lines        *)
(* processed, minus one when a message is in progress; the k-th            *)
(* notification delivers the k-th started message, so no message is        *)
(* notified twice, none is lost and the order is the order of completion.  *)
C2_NotifiedExactlyOnce ==
    /\ Len(emitted) = Len(StartPositions) - InProgress
    /\ Len(heap) = Len(StartPositions)
    /\ \A k \in 1..Len(emitted) : emitted[k].ref = k
    /\ currentMessage # Null => currentMessage = Len(heap)

C2_Witness ==
    /\ Len(emitted) >= 2
    /\ currentMessage # Null
    /\ \E j \in 1..NumCalls : calls[j] = FlushCall

(* C3: a delivered message is closed: whatever is called afterwards, the   *)
(* object the listener received keeps the date, author and text it had     *)
(* when it was delivered, and it is never again the in-progress record.    *)
C3_EmittedIsFrozen ==
    \A k \in 1..Len(emitted) :
        /\ heap[emitted[k].ref] = emitted[k].snap
        /\ emitted[k].ref # currentMessage

C3_Witness ==
    /\ Len(emitted) >= 1
    /\ NumCalls >= 2
    /\ IsContCall(LastCall)
    /\ IsStartCall(calls[NumCalls - 1])
    /\ currentMessage # Null

(* C4: flush() with a message in progress delivers exactly that message    *)
(* once and empties the slot; flush() with no message in progress delivers *)
(* nothing and changes nothing; a flush() directly after a flush()         *)
(* delivers nothing.                                                       *)
C4_FlushEmitsOnce ==
    [][Called(FlushCall) =>
        /\ IF currentMessage # Null
           THEN /\ emitted' = Append(emitted, Notification(currentMessage))
                /\ currentMessage' = Null
                /\ UNCHANGED <<users, currentDate, heap, raised>>
           ELSE UNCHANGED <<users, currentDate, currentMessage, heap,
                            emitted, raised>>
        /\ (NumCalls >= 1 /\ LastCall = FlushCall) => emitted' = emitted
      ]_vars

C4_Witness ==
    /\ NumCalls >= 3
    /\ LastCall = FlushCall
    /\ calls[NumCalls - 1] = FlushCall
    /\ IsStartCall(calls[NumCalls - 2])
    /\ Len(emitted) = 1

(* C5: process(line) followed by flush() never raises, whatever the line   *)
(* and whether or not users was passed; a line that is neither a date      *)
(* header nor a message start is a continuation, appended to the message   *)
(* in progress.                                                            *)
C5_NeverRaises ==
    /\ raised = FALSE
    /\ (NumCalls >= 1 /\ IsContCall(LastCall) /\ currentMessage # Null) =>
          LET text == heap[currentMessage].text
              tail == <<"\n">> \o LastCall.line
          IN  /\ Len(text) >= Len(tail)
              /\ SubSeq(text, Len(text) - Len(tail) + 1, Len(text)) = tail

C5_Witness ==
    /\ NumCalls >= 3
    /\ ~users.defined
    /\ calls[1] = ProcessCall(ContEmpty)
    /\ calls[2] = ProcessCall(ContBadTime)
    /\ calls[3] = FlushCall
    /\ ~raised

\* the text the k-th started message must have once it is closed
ExpectedText(k) ==
    LET j == StartPositions[k]
    IN  StartOf(calls[j].line).text \o NewlineEach(ContinuationsAfter(j))

(* C6: the text of an emitted message is the initial text of its           *)
(* message-start line followed, for each continuation line processed while *)
(* it was in progress and in that order, by a newline and the whole line;  *)
(* an empty line contributes a newline, tabs are kept.                     *)
C6_TextAccumulates ==
    \A k \in 1..Len(emitted) : emitted[k].snap.text = ExpectedText(k)

C6_Witness ==
    /\ NumCalls >= 4
    /\ IsStartCall(calls[1])
    /\ calls[2] = ProcessCall(ContEmpty)
    /\ calls[3] = ProcessCall(ContTab)
    /\ Len(emitted) = 1

\* total length of the lines ls, each counted with one newline before it
RECURSIVE LengthWithNewlines(_)
LengthWithNewlines(ls) ==
    IF ls = <<>> THEN 0 ELSE 1 + Len(Head(ls)) + LengthWithNewlines(Tail(ls))

(* C7: a continuation line processed while no message is in progress is    *)
(* discarded: nothing is emitted, the slot stays empty, currentDate and    *)
(* the messages are unchanged, and no emitted message holds a character    *)
(* more than its own start text and its own continuation lines.            *)
C7_OrphanLineDiscarded ==
    /\ [][(calls' # calls /\ IsContCall(calls'[NumCalls + 1])
                          /\ currentMessage = Null) =>
             UNCHANGED <<users, currentDate, currentMessage, heap, emitted,
                         raised>>
         ]_vars
    /\ [](\A k \in 1..Len(emitted) :
            LET j == StartPositions[k]
            IN  Len(emitted[k].snap.text) =
                    Len(StartOf(calls[j].line).text)
                        + LengthWithNewlines(ContinuationsAfter(j)))

C7_Witness ==
    /\ NumCalls >= 4
    /\ IsHeaderCall(calls[1])
    /\ calls[2] = ProcessCall(ContTab)
    /\ IsStartCall(calls[3])
    /\ Len(emitted) = 1
    /\ emitted[1].snap.text = StartOf(calls[3].line).text

(* C8: after process(line) of a line matching the date-header pattern with *)
(* digits YYYY, MM, DD, currentDate is year YYYY, zero-based month MM-1,   *)
(* day DD at 00:00:00.000, whatever the weekday word or the annotation.    *)
C8_HeaderSetsCalendarDate ==
    (NumCalls >= 1 /\ IsHeaderCall(LastCall)) =>
        currentDate = [year    |-> parseInt(SubSeq(LastCall.line, 1, 4)),
                       month   |-> parseInt(SubSeq(LastCall.line, 6, 7)) - 1,
                       date    |-> parseInt(SubSeq(LastCall.line, 9, 10)),
                       hours   |-> 0, minutes |-> 0,
                       seconds |-> 0, ms      |-> 0]

\* the date context in force when the call at position j was made
DateContextAt(j) ==
    LET hs == {q \in 1..(j - 1) : IsHeaderCall(calls[q])}
    IN  IF hs = {} THEN constructedAt
        ELSE LET q == CHOOSE q \in hs : \A r \in hs : r <= q
                 h == matchDateHeader(calls[q].line)
             IN  NewDate(h.year, h.month, h.day)

(* C9: a date header processed while a message is in progress emits        *)
(* exactly that message, before the new date is applied: the message keeps *)
(* the date built from the context it was started in and the text it had   *)
(* (nothing of the header line), and afterwards no message is in progress. *)
C9_HeaderFlushesFirst ==
    [][(calls' # calls /\ IsHeaderCall(calls'[NumCalls + 1])
                       /\ currentMessage # Null) =>
          /\ emitted' = Append(emitted, Notification(currentMessage))
          /\ heap' = heap
          /\ currentMessage' = Null
          /\ LET j == StartPositions[Len(StartPositions)]
                 s == StartOf(calls[j].line)
             IN  /\ heap[currentMessage].date =
                        setHours(DateContextAt(j), s.hours, s.minutes)
                 /\ heap[currentMessage].text =
                        s.text \o NewlineEach(ContinuationsAfter(j))
      ]_vars

C9_Witness ==
    /\ NumCalls >= 3
    /\ LastCall = ProcessCall(HeaderSaturday)
    /\ IsContCall(calls[NumCalls - 1])
    /\ IsStartCall(calls[NumCalls - 2])
    /\ Len(emitted) = 1
    /\ currentMessage = Null
    /\ emitted[1].snap.date.year # currentDate.year

(* C10: a message-start line processed while a message is in progress      *)
(* emits the prior message exactly once, untouched by the new line, and    *)
(* then creates the new message in a fresh record; after every             *)
(* message-start line the message in progress is the one of that line.     *)
C10_StartFlushesFirst ==
    [][(calls' # calls /\ IsStartCall(calls'[NumCalls + 1])) =>
          LET s == StartOf(calls'[NumCalls + 1].line)
          IN  /\ currentMessage' # Null
              /\ currentMessage' \notin DOMAIN heap
              /\ \A k \in 1..Len(emitted') : emitted'[k].ref # currentMessage'
              /\ heap'[currentMessage'] =
                     [date   |-> setHours(currentDate, s.hours, s.minutes),
                      author |-> s.author,
                      text   |-> s.text]
              /\ SubSeq(heap', 1, Len(heap)) = heap
              /\ IF currentMessage # Null
                 THEN emitted' = Append(emitted, Notification(currentMessage))
                 ELSE emitted' = emitted
      ]_vars

C10_Witness ==
    /\ NumCalls >= 3
    /\ IsStartCall(LastCall)
    /\ IsContCall(calls[NumCalls - 1])
    /\ IsStartCall(calls[NumCalls - 2])
    /\ Len(emitted) >= 1
    /\ currentMessage # Null
    /\ heap[currentMessage].text = StartOf(LastCall.line).text

---------------------------------------------------------------------------
\* the message-start lines among ls, in order
RECURSIVE StartLines(_)
StartLines(ls) ==
    IF ls = <<>> THEN <<>>
    ELSE IF IsStartLine(Head(ls)) THEN <<Head(ls)>> \o StartLines(Tail(ls))
    ELSE StartLines(Tail(ls))

(* C1: parse(input, users) returns one message per message-start line of   *)
(* the input, in input order: the i-th message has the author of the i-th  *)
(* message-start line, its time of day (hour modulo 24, minutes) and a     *)
(* text that begins with its initial text; the last started message is     *)
(* there because parse ends with a flush().                                *)
C1_ParseOneMessagePerStart ==
    pc = "done" =>
        LET starts == StartLines(doc)
        IN  /\ Len(result) = Len(starts)
            /\ \A i \in 1..Len(result) :
                  LET m == heap[result[i]]
                      s == StartOf(starts[i])
                  IN  /\ m.author = s.author
                      /\ IsPrefix(s.text, m.text)
                      /\ m.date.hours * 60 + m.date.minutes
                            = (s.hours * 60 + s.minutes) % 1440
            /\ \A i, j \in 1..Len(result) : i < j => result[i] < result[j]

C1_Witness ==
    /\ pc = "done"
    /\ ~file.isArray
    /\ Len(doc) = 3
    /\ IsStartLine(doc[1])
    /\ IsContLine(doc[2])
    /\ IsStartLine(doc[3])
    /\ Len(result) = 2
    /\ heap[result[2]].author = StartOf(doc[3]).author

---------------------------------------------------------------------------
(* Vocabulary of the claims about a single line: the tokens of a           *)
(* message-start line, read off the line itself.                           *)

\* the hour H written on a message-start line
HoursOf(line) == parseInt(SubSeq(line, 1, TimePrefix(line)))

\* the minute M written on a message-start line
MinutesOf(line) ==
    parseInt(SubSeq(line, TimePrefix(line) + 2, TimePrefix(line) + 3))

\* what follows the time and its separator on a message-start line
RemainderOf(line) == SubSeq(line, TimePrefix(line) + 5, Len(line))

\* the last call started a message
JustStarted == NumCalls >= 1 /\ IsStartCall(LastCall)

(* C11: after a message-start line with hour H (one or two digits) and a   *)
(* minute M of at most 59, the started message's date is the year, month   *)
(* and day of the date context at hour H mod 24 and minute M: hour 24 is   *)
(* 00:MM of the same day, and a one-digit hour is read like its            *)
(* zero-padded form.                                                       *)
C11_HourModulo24 ==
    (JustStarted /\ MinutesOf(LastCall.line) <= 59) =>
        LET ctx == DateContextAt(NumCalls)
            d   == heap[currentMessage].date
        IN  /\ d.year = ctx.year /\ d.month = ctx.month /\ d.date = ctx.date
            /\ d.hours = HoursOf(LastCall.line) % 24
            /\ d.minutes = MinutesOf(LastCall.line)
            /\ TimePrefix(LastCall.line) = 1 =>
                  matchMessageStart(<<"0">> \o LastCall.line, users)
                      = matchMessageStart(LastCall.line, users)

C11_Witness ==
    /\ JustStarted
    /\ HoursOf(LastCall.line) = 24
    /\ MinutesOf(LastCall.line) = 59
    /\ heap[currentMessage].date.hours = 0
    /\ heap[currentMessage].date.date = 31
    /\ currentDate.date = 31

(* C12: after any line accepted as a message start (hour 0..99, minute     *)
(* 00..99) the started message's date has the year, month and day of       *)
(* currentDate: only hours and minutes are overwritten.                    *)
C12_DatePortionUnchanged ==
    JustStarted =>
        LET d == heap[currentMessage].date
        IN  /\ d.year = currentDate.year
            /\ d.month = currentDate.month
            /\ d.date = currentDate.date

\* the users that are a literal prefix of the remainder of line
PrefixUsers(line) ==
    {users.list[i] : i \in {i \in 1..Len(users.list) :
        /\ Len(users.list[i]) <= Len(RemainderOf(line))
        /\ \A k \in 1..Len(users.list[i]) :
              users.list[i][k] = RemainderOf(line)[k]}}

(* C13: with users configured, the author of a started message is the      *)
(* longest element of users that is a literal prefix of the remainder      *)
(* after the time token, whatever the order of users; it is the empty      *)
(* string when no element is a prefix.                                     *)
C13_LongestPrefixUser ==
    (JustStarted /\ users.defined) =>
        LET author == heap[currentMessage].author
            cands  == PrefixUsers(LastCall.line)
        IN  IF cands = {} THEN author = <<>>
            ELSE /\ author \in cands
                 /\ \A c \in cands : Len(c) <= Len(author)

C13_Witness ==
    /\ JustStarted
    /\ users.defined
    /\ Len(users.list[1]) = 7
    /\ Cardinality(PrefixUsers(LastCall.line)) = 2
    /\ Len(heap[currentMessage].author) = 7

(* C14: with users configured and an author deduced, the text of the       *)
(* started message is the remainder without the author and without the     *)
(* one character that follows it, and that character is a space or a tab   *)
(* (unless the remainder ends with the author).                            *)
C14_SeparatorStripped ==
    (JustStarted /\ users.defined /\ heap[currentMessage].author # <<>>) =>
        LET rem == RemainderOf(LastCall.line)
            n   == Len(heap[currentMessage].author)
        IN  /\ heap[currentMessage].text = SubSeq(rem, n + 2, Len(rem))
            /\ Len(rem) > n => rem[n + 1] \in TimeSep

(* C15: without users, the author of a message-start line is the segment   *)
(* between the time separator and the first following tab (so it holds no  *)
(* tab) and the text is everything after that tab, further tabs included;  *)
(* without a further tab the author is the whole remainder and the text is *)
(* empty.                                                                  *)
C15_TabSplitsAuthorAndText ==
    (JustStarted /\ ~users.defined) =>
        LET rem == RemainderOf(LastCall.line)
            n   == RunNot(rem, 1, {"\t"})
        IN  /\ heap[currentMessage].author = SubSeq(rem, 1, n)
            /\ heap[currentMessage].text = SubSeq(rem, n + 2, Len(rem))

\* line matches the date-header pattern and a message-start pattern
MatchesBoth(line) ==
    /\ DateHeaderRegexp(line)
    /\ TabRegexp(line).matched \/ SpaceRegexp(line).matched

\* the step just taken is process(line) and ran the date-header handler only
RanDateHeader(line) ==
    LET h == matchDateHeader(line)
    IN  Parser' = processDateHeader(Parser, h.year, h.month, h.day)

\* the step just taken is process(line) and ran the message-start handler only
RanMessageStart(line) ==
    LET s == matchMessageStart(line, users)
    IN  Parser' = processMessageStart(Parser, s.hours, s.minutes, s.author,
                                      s.text)

\* the step just taken is process(line) and ran the continuation handler only
RanMessageContinuation(line) ==
    Parser' = processMessageContinuation(Parser, line)

(* C16: no line matches both the date-header pattern and a message-start   *)
(* pattern (with or without users), and every process(line) call does what *)
(* exactly one handler does: the date-header handler for a date header,    *)
(* the message-start handler for a message start, the continuation handler *)
(* for every other line.                                                   *)
C16_OneHandlerPerLine ==
    /\ [](\A k \in 1..Len(doc) : ~MatchesBoth(doc[k]))
    /\ [][(calls' # calls /\ calls'[NumCalls + 1].op = "process") =>
            LET line == calls'[NumCalls + 1].line
            IN  IF IsHeaderLine(line) THEN RanDateHeader(line)
                ELSE IF IsStartLine(line) THEN RanMessageStart(line)
                ELSE RanMessageContinuation(line)
         ]_vars

C16_Witness ==
    /\ NumCalls = 2
    /\ calls[1] = ProcessCall(StartFooSpace)
    /\ LastCall = ProcessCall(HeaderSaturday \o <<" ">> \o StartFooSpace)
    /\ Len(emitted) = 1
    /\ currentMessage = Null
    /\ currentDate.year = 2017

\* what the listener of parse(f, users) receives, for a parser constructed at
\* the same moment as the one of this behaviour
MessagesOf(f) == parse(f, users, constructedAt).parser.emitted

\* the lines handed to process() so far, in order
LinesProcessed ==
    LET ps == {j \in 1..NumCalls : calls[j].op = "process"}
    IN  [j \in 1..Cardinality(ps) |-> calls[j].line]

(* C17: parse of a string processes the lines between the line endings,    *)
(* LF or CRLF, empty lines included; the messages of the CRLF document are *)
(* those of the LF document, and no message text holds a carriage return.  *)
C17_CRLFSameAsLF ==
    (pc = "done" /\ ~file.isArray) =>
        /\ LinesProcessed = IF doc = <<>> THEN << <<>> >> ELSE doc
        /\ emitted = MessagesOf(StringFile(Join(doc, LF)))
        /\ emitted = MessagesOf(StringFile(Join(doc, CRLF)))
        /\ \A k \in 1..Len(emitted) :
              \A i \in 1..Len(emitted[k].snap.text) :
                  emitted[k].snap.text[i] # "\r"

C17_Witness ==
    /\ pc = "done"
    /\ ~file.isArray
    /\ file.string = Join(doc, CRLF)
    /\ doc = <<StartFooSpace, ContEmpty, ContBadTime>>
    /\ Len(result) = 1
    /\ heap[result[1]].text =
           <<"h", "e", "l", "l", "o", "\n", "\n">> \o ContBadTime

(* C18: for a sequence of lines without line terminators, parse of the     *)
(* array of lines and parse of the lines joined by "\n" return the same    *)
(* messages, and these are the messages a fresh parser emits when it is    *)
(* fed the lines one by one with process() and then flushed.               *)
C18_ParseEqualsFeeding ==
    pc = "fed" =>
        /\ emitted = MessagesOf(ArrayFile(doc))
        /\ emitted = MessagesOf(StringFile(Join(doc, LF)))
        /\ \A k \in 1..Len(emitted) : heap[emitted[k].ref] = emitted[k].snap

C18_Witness ==
    /\ pc = "fed"
    /\ doc = <<StartFooSpace, ContEmpty, StartZed>>
    /\ Len(emitted) = 2
    /\ emitted[1].snap.text = <<"h", "e", "l", "l", "o", "\n">>
    /\ currentMessage = Null

\* the k-th started message was started after a date header
AfterHeader(k) == \E q \in 1..StartPositions[k] : IsHeaderCall(calls[q])

(* C19: two parse calls with the same input and the same users return      *)
(* equal message sequences (dates, authors and texts), whenever the calls  *)
(* are made.                                                               *)
C19_ParseIsPure ==
    pc = "done" =>
        \A now \in NowChoices : parse(file, users, now).parser.emitted = emitted

(* C19, amended: two parse calls with the same input and the same users    *)
(* return equally many messages with equal authors and texts, and equal    *)
(* dates for every message started after a date header; the date of a      *)
(* message started before the first date header is built from the moment   *)
(* of its own call, so calls made at the same moment return equal          *)
(* sequences.                                                              *)
C19_ParseDependsOnClockOnly ==
    pc = "done" =>
        \A now \in NowChoices :
            LET again == parse(file, users, now).parser.emitted
            IN  /\ Len(again) = Len(emitted)
                /\ now = constructedAt => again = emitted
                /\ \A k \in 1..Len(emitted) :
                      /\ again[k].snap.author = emitted[k].snap.author
                      /\ again[k].snap.text = emitted[k].snap.text
                      /\ IF AfterHeader(k)
                         THEN again[k].snap.date = emitted[k].snap.date
                         ELSE LET s == StartOf(calls[StartPositions[k]].line)
                              IN  again[k].snap.date =
                                      setHours(now, s.hours, s.minutes)

C19_Witness ==
    /\ pc = "done"
    /\ doc = <<StartFooSpace, HeaderSaturday, StartFooBarTab>>
    /\ Len(emitted) = 2
    /\ emitted[1].snap.date.year = constructedAt.year
    /\ emitted[1].snap.date.seconds = constructedAt.seconds
    /\ emitted[2].snap.date.year = 2017
    /\ emitted[2].snap.date.seconds = 0

\* the parser p after the calls cs, made on it alone
RECURSIVE Alone(_, _)
Alone(p, cs) == IF cs = <<>> THEN p ELSE Alone(call(p, Head(cs)), Tail(cs))

(* C20: when the calls of two streams are made on two instances in any     *)
(* interleaving, each instance's currentDate, message in progress and      *)
(* emitted messages are those of the instance run alone on its stream, and *)
(* a call on one instance changes nothing of the other.                    *)
C20_InstancesAreIndependent ==
    /\ [](/\ Parser = Alone(constructor(users, constructedAt), calls)
          /\ other.parser =
                Alone(constructor(other.parser.users, other.constructedAt),
                      other.calls))
    /\ [][/\ calls' # calls => other' = other
          /\ other' # other => Parser' = Parser /\ calls' = calls
         ]_vars

C20_Witness ==
    /\ Len(calls) = 2
    /\ Len(other.calls) = 2
    /\ currentMessage # Null
    /\ currentDate.year = 2017
    /\ other.parser.currentMessage = Null
    /\ Len(other.parser.emitted) = 1
    /\ other.parser.currentDate.year # 2017
    /\ other.parser.users # users

\* the step just taken is a call other than process() of a date header
CalledNoHeader == calls' # calls /\ ~IsHeaderCall(calls'[NumCalls + 1])

\* a date header was processed before the call at position j
HeaderBefore(j) == \E q \in 1..(j - 1) : IsHeaderCall(calls[q])

(* C21: currentDate is changed only by processing a date header: message   *)
(* starts, continuation lines and flush() leave it as it is, so a message  *)
(* started after a date header and before the next one has the year,       *)
(* month and day of that header.                                           *)
C21_OnlyHeadersMoveTheDate ==
    /\ [][CalledNoHeader => currentDate' = currentDate]_vars
    /\ []((JustStarted /\ HeaderBefore(NumCalls)) =>
            LET d == heap[currentMessage].date
                h == DateContextAt(NumCalls)
            IN  d.year = h.year /\ d.month = h.month /\ d.date = h.date)

(* C22: a continuation line never causes an emission: the message in       *)
(* progress stays in progress through any number of continuation lines.    *)
(* A message is emitted only by a step that processes a date header or a   *)
(* message start or that is flush(), and it is the one in progress then.   *)
C22_ContinuationNeverEmits ==
    /\ [][(calls' # calls /\ IsContCall(calls'[NumCalls + 1])) =>
            /\ emitted' = emitted
            /\ currentMessage' = currentMessage
         ]_vars
    /\ [][emitted' # emitted =>
            /\ calls' # calls
            /\ \/ IsHeaderCall(calls'[NumCalls + 1])
               \/ IsStartCall(calls'[NumCalls + 1])
               \/ calls'[NumCalls + 1] = FlushCall
            /\ currentMessage # Null
            /\ emitted' = Append(emitted, Notification(currentMessage))
         ]_vars

C22_Witness ==
    /\ pc = "feed"
    /\ doc = <<StartFooSpace, ContEmpty, ContBadTime>>
    /\ NumCalls = 3
    /\ currentMessage # Null
    /\ emitted = <<>>

\* the step just taken is process(line) with users configured, for a line
\* made of a time, one space or tab and a remainder
CalledTimedWithUsers ==
    /\ calls' # calls
    /\ calls'[NumCalls + 1].op = "process"
    /\ users.defined
    /\ TimePrefix(calls'[NumCalls + 1].line) > 0

(* C23: with users configured, every line made of a one- or two-digit      *)
(* hour, a colon, a two-digit minute, one space or tab and a non-empty     *)
(* remainder is a message start, whatever the length or first character of *)
(* the remainder.                                                          *)
C23_AnyRemainderStarts ==
    [][(CalledTimedWithUsers
            /\ Len(RemainderOf(calls'[NumCalls + 1].line)) > 0) =>
          /\ IsStartLine(calls'[NumCalls + 1].line)
          /\ RanMessageStart(calls'[NumCalls + 1].line)
      ]_vars

\* a remainder the pattern (\S.+) accepts
StartsMessage(rem) ==
    /\ Len(rem) >= 2
    /\ rem[1] \notin WhiteSpace
    /\ rem[2] \notin LineTerminator

(* C23, amended: with users configured, such a line is a message start     *)
(* exactly when its remainder has at least two characters, the first not a *)
(* whitespace character and the second not a line terminator; otherwise    *)
(* the line is a continuation line.                                        *)
C23_TwoCharRemainderStarts ==
    [][CalledTimedWithUsers =>
          LET line == calls'[NumCalls + 1].line
          IN  IF StartsMessage(RemainderOf(line))
              THEN IsStartLine(line) /\ RanMessageStart(line)
              ELSE IsContLine(line) /\ RanMessageContinuation(line)
      ]_vars

C23_Witness ==
    /\ NumCalls = 2
    /\ users.defined
    /\ calls[1] = ProcessCall(StartFooSpace)
    /\ TimePrefix(LastCall.line) = 2
    /\ RemainderOf(LastCall.line) = RestOneChar
    /\ emitted = <<>>
    /\ currentMessage = 1
    /\ heap[1].text = <<"h", "e", "l", "l", "o", "\n">> \o LastCall.line

---------------------------------------------------------------------------
(* Vocabulary of the claims about date lines.                              *)

\* YYYY, MM and DD as digits with one character between them
DateDigits(line) ==
    /\ Len(line) >= 10
    /\ \A k \in {1, 2, 3, 4, 6, 7, 9, 10} : line[k] \in Digit

\* the characters between year and month and between month and day
SeparatorsOf(line) == <<line[5], line[8]>>

\* what follows the day on a date line
SuffixOf(line) == SubSeq(line, 11, Len(line))

\* a space and a word
SpaceAndWord(suffix) ==
    /\ Len(suffix) >= 3
    /\ suffix[1] = " "
    /\ \A k \in 2..Len(suffix) : suffix[k] \notin WhiteSpace

\* a space and a word that begins with an ASCII capital letter followed by
\* an ASCII lowercase letter
SpaceAndCapitalized(suffix) ==
    /\ Len(suffix) >= 3
    /\ suffix[1] = " "
    /\ suffix[2] \in Upper
    /\ suffix[3] \in Lower

\* a parenthesized annotation that is not empty
Annotation(suffix) ==
    /\ Len(suffix) >= 3
    /\ suffix[1] = "("
    /\ \E k \in 3..Len(suffix) :
          /\ suffix[k] = ")"
          /\ \A j \in 2..(k - 1) : suffix[j] \notin LineTerminator

\* the step just taken is process(line) for a line YYYY<sep>MM<sep>DD<suffix>
\* with both separators among '.' and '/'
CalledDateLine ==
    /\ calls' # calls
    /\ calls'[NumCalls + 1].op = "process"
    /\ DateDigits(calls'[NumCalls + 1].line)
    /\ SeparatorsOf(calls'[NumCalls + 1].line) \in DateSep \X DateSep

(* C24: a line YYYY<sep>MM<sep>DD followed by a space and a weekday name   *)
(* is a date header for a weekday name in any script, just as one followed *)
(* by a parenthesized annotation is.                                       *)
C24_AnyScriptWeekday ==
    [][(CalledDateLine
            /\ \/ SpaceAndWord(SuffixOf(calls'[NumCalls + 1].line))
               \/ Annotation(SuffixOf(calls'[NumCalls + 1].line))) =>
          /\ IsHeaderLine(calls'[NumCalls + 1].line)
          /\ RanDateHeader(calls'[NumCalls + 1].line)
      ]_vars

(* C24, amended: such a line followed by a space and a word is a date      *)
(* header exactly when the word begins with an ASCII capital letter        *)
(* followed by an ASCII lowercase letter; a non-empty parenthesized        *)
(* annotation makes it a date header whatever its content; every other     *)
(* such line is a continuation line.                                       *)
C24_CapitalizedLatinWeekday ==
    [][CalledDateLine =>
          LET line == calls'[NumCalls + 1].line
          IN  IF \/ SpaceAndCapitalized(SuffixOf(line))
                 \/ Annotation(SuffixOf(line))
              THEN IsHeaderLine(line) /\ RanDateHeader(line)
              ELSE IsContLine(line) /\ RanMessageContinuation(line)
      ]_vars

C24_Witness ==
    /\ NumCalls = 2
    /\ calls[1] = ProcessCall(StartFooSpace)
    /\ DateDigits(LastCall.line)
    /\ SeparatorsOf(LastCall.line) = <<"/", "/">>
    /\ SuffixOf(LastCall.line) = <<" ", "u571F", "u66DC", "u65E5">>
    /\ emitted = <<>>
    /\ currentMessage = 1
    /\ currentDate = constructedAt

(* C25: a date header is recognized only when the separator between year   *)
(* and month is the same character as the one between month and day.       *)
C25_SameSeparatorOnly ==
    (NumCalls >= 1 /\ IsHeaderCall(LastCall)) =>
        LastCall.line[5] = LastCall.line[8]

\* line with its second date separator replaced by its first
WithFirstSeparator(line) == [line EXCEPT ![8] = line[5]]

(* C25, amended: a line YYYY<sep>MM<sep>DD with a capitalized word or an   *)
(* annotation behind it is a date header exactly when each of its two      *)
(* separators is '.' or '/', each on its own: mixed separators are         *)
(* accepted and set the date that equal separators set.                    *)
C25_EachSeparatorOnItsOwn ==
    [][(calls' # calls /\ calls'[NumCalls + 1].op = "process"
            /\ DateDigits(calls'[NumCalls + 1].line)
            /\ \/ SpaceAndCapitalized(SuffixOf(calls'[NumCalls + 1].line))
               \/ Annotation(SuffixOf(calls'[NumCalls + 1].line))) =>
          LET line == calls'[NumCalls + 1].line
          IN  IF SeparatorsOf(line) \in DateSep \X DateSep
              THEN /\ IsHeaderLine(line)
                   /\ RanDateHeader(line)
                   /\ matchDateHeader(line) =
                          matchDateHeader(WithFirstSeparator(line))
              ELSE IsContLine(line) /\ RanMessageContinuation(line)
      ]_vars

C25_Witness ==
    /\ NumCalls = 2
    /\ calls[1] = ProcessCall(StartFooSpace)
    /\ DateDigits(LastCall.line)
    /\ SeparatorsOf(LastCall.line) = <<".", "/">>
    /\ SuffixOf(LastCall.line) = SubSeq(HeaderSaturday, 11, 19)
    /\ Len(emitted) = 1
    /\ currentMessage = Null
    /\ currentDate = NewDate(2017, 8, 2)

(* C26: every emitted message's date has minute resolution: its seconds    *)
(* and milliseconds are zero, for messages started after a date header and *)
(* for messages started before any date header.                            *)
C26_MinuteResolution ==
    \A k \in 1..Len(emitted) :
        /\ emitted[k].snap.date.seconds = 0
        /\ emitted[k].snap.date.ms = 0

(* C27: with users configured, a message-start line of whose remainder no  *)
(* configured name is a prefix starts a message whose author is the empty  *)
(* string and whose text is the remainder without its first character.     *)
C27_NoAuthorDropsOneCharacter ==
    (JustStarted /\ users.defined /\ PrefixUsers(LastCall.line) = {}) =>
        /\ currentMessage = Len(heap)
        /\ heap[currentMessage].author = <<>>
        /\ heap[currentMessage].text =
               SubSeq(RemainderOf(LastCall.line), 2,
                      Len(RemainderOf(LastCall.line)))

(* C28: while a 'message' listener runs, the in-progress slot no longer    *)
(* holds the message being delivered, so a listener that calls flush() or  *)
(* process() on the same parser cannot have the message emitted a second   *)
(* time or modified while it is being delivered.                           *)
C28_ListenerSeesEmptySlot ==
    /\ pc = "handler" => currentMessage # emitted[Len(emitted)].ref
    /\ \A j, k \in 1..Len(emitted) : emitted[j].ref = emitted[k].ref => j = k
    /\ \A k \in 1..Len(emitted) : heap[emitted[k].ref] = emitted[k].snap

\* the arrays that hold the elements of list in some order
PermutationsOf(list) ==
    {[i \in 1..Len(list) |-> list[f[i]]] : f \in Permutations(1..Len(list))}

(* C29: the deduced author does not depend on the order of users: for the  *)
(* remainder of every message-start line, every permutation of users       *)
(* yields the author the parser stored.                                    *)
C29_AuthorIgnoresOrder ==
    (JustStarted /\ users.defined) =>
        \A perm \in PermutationsOf(users.list) :
            findAuthor(Array(perm), RemainderOf(LastCall.line)).value
                = heap[currentMessage].author

C29_Witness ==
    /\ JustStarted
    /\ users.defined
    /\ Len(users.list[1]) = 3
    /\ Len(users.list[3]) = 7
    /\ Cardinality(PrefixUsers(LastCall.line)) = 2
    /\ heap[currentMessage].author = users.list[3]
    /\ Cardinality(PermutationsOf(users.list)) = 6

=============================================================================
